---- MODULE Spec2Model ----
(***************************************************************************)
(* katalist: a development-time HTTP client facade that writes a Zod       *)
(* schema module for an observed response and rewrites the calling source  *)
(* file (src/src/transformer.ts, the facade of src/unnamed/part_001,       *)
(* src/src/jsonToZodSchema.ts).                                            *)
(*                                                                         *)
(* Texts (identifiers, module specifiers, file names) are sequences of     *)
(* tokens, so that `${a}${b}`, String.replace and String.includes are      *)
(* computed as the code computes them.  A source file is the list of its   *)
(* import declarations, its `new X({...})` sites and its property-access   *)
(* call sites, in source order.                                            *)
(***************************************************************************)
EXTENDS Integers, Sequences, FiniteSets, TLC

VARIABLES
    disk,        \* the file system: path -> content, DOMAIN disk = existing files
    pending,     \* asynchronous work issued and not yet finished (Bun write, prettier format)
    tr,          \* the latest transformHttpClientCall invocation (arguments, input, outcome)
    produced,    \* the texts transformHttpClientCall has returned so far
    calls,       \* the facade calls made, in order: request, hook position, outcome
    failed,      \* the asynchronous tasks that failed with nobody awaiting them
    stack,       \* the stack trace getCallerFilePath reads (new Error().stack)
    caller,      \* the outcome of getCallerFilePath on that trace
    inferred,    \* what generateSchema.json() inferred from the JSON value handed over
    descriptor,  \* the outcome of jsontoJsonSchema on that value
    clientFile,  \* the file and function-name filter addTypeToHttpClientCall is given
    correlated,  \* the outcome of addTypeToHttpClientCall on that file
    runs         \* the engine invocations that overlap on one file: what each read and returned

vars == <<disk, pending, tr, produced, calls, failed, stack, caller, inferred, descriptor,
          clientFile, correlated, runs>>

----------------------------------------------------------------------------
(* Bounds of the model *)

MaxCalls == 2        \* call sites per generated source file

----------------------------------------------------------------------------
(* Text helpers: String.prototype.includes / replace on token sequences *)

Includes(s, sub) ==
    \E i \in 1..(Len(s) - Len(sub) + 1) : SubSeq(s, i, i + Len(sub) - 1) = sub

IndexOf(s, tok) ==
    IF \E i \in 1..Len(s) : s[i] = tok
    THEN CHOOSE i \in 1..Len(s) : s[i] = tok /\ \A j \in 1..(i - 1) : s[j] # tok
    ELSE 0

\* s.replace(tok, repl) with a string pattern: the first occurrence only
ReplaceFirst(s, tok, repl) ==
    LET i == IndexOf(s, tok)
    IN  IF i = 0 THEN s ELSE SubSeq(s, 1, i - 1) \o repl \o SubSeq(s, i + 1, Len(s))

Last(s) == s[Len(s)]

----------------------------------------------------------------------------
(* Paths: a path is a sequence of segments, a segment a sequence of tokens. *)
(* "/proj/my.tsapp/api.ts" is << <<"proj">>, <<"my",".ts","app">>,          *)
(* <<"api",".ts">> >>.                                                      *)

Cwd == << <<"proj">> >>      \* process.cwd()

RECURSIVE CommonPrefixLen(_, _)
CommonPrefixLen(a, b) ==
    IF a = <<>> \/ b = <<>> \/ a[1] # b[1] THEN 0
    ELSE 1 + CommonPrefixLen(Tail(a), Tail(b))

dirname(p) == SubSeq(p, 1, Len(p) - 1)

\* node:path relative(from, to) for two absolute normalized paths
relative(from, to) ==
    LET k == CommonPrefixLen(from, to)
    IN  [i \in 1..(Len(from) - k) |-> <<"..">>] \o SubSeq(to, k + 1, Len(to))

RECURSIVE PathText(_)
\* the path as one text, segments joined by "/"
PathText(segs) ==
    IF segs = <<>> THEN <<>>
    ELSE IF Len(segs) = 1 THEN segs[1]
    ELSE segs[1] \o <<"/">> \o PathText(Tail(segs))

calculateHttpSchemasPath(sourceFilePath) ==
    LET sourceDir == dirname(sourceFilePath)
        relativeToRoot == relative(sourceDir, Cwd)
        httpSchemasPath == relativeToRoot \o << <<"http-schemas">> >>
    IN  IF httpSchemasPath[1][1] = ".."
        THEN PathText(httpSchemasPath)
        ELSE <<".", "/">> \o PathText(httpSchemasPath)

RECURSIVE ReplaceFirstInPath(_, _, _)
\* String.replace over the whole path text: the first segment holding the token
ReplaceFirstInPath(p, tok, repl) ==
    IF p = <<>> THEN <<>>
    ELSE IF IndexOf(p[1], tok) # 0 THEN <<ReplaceFirst(p[1], tok, repl)>> \o Tail(p)
    ELSE <<p[1]>> \o ReplaceFirstInPath(Tail(p), tok, repl)

\* sourceFilePath.replace(".ts", ".transformed.ts")
transformedPath(sourceFilePath) ==
    ReplaceFirstInPath(sourceFilePath, ".ts", <<".transformed", ".ts">>)

----------------------------------------------------------------------------
(* Syntax tree of a source file *)

Prop(k, kind, name) == [key |-> k, kind |-> kind, name |-> name]

HasProperty(props, k) == \E i \in 1..Len(props) : props[i].key = k

\* ObjectLiteralExpression.getProperty(name): the first property of that name
getProperty(props, k) ==
    IF HasProperty(props, k)
    THEN CHOOSE i \in 1..Len(props) :
            props[i].key = k /\ \A j \in 1..(i - 1) : props[j].key # k
    ELSE 0

RemoveAt(s, i) == SubSeq(s, 1, i - 1) \o SubSeq(s, i + 1, Len(s))

\* node.remove() of the property named k, when there is one
RemoveProperty(props, k) ==
    IF getProperty(props, k) = 0 THEN props ELSE RemoveAt(props, getProperty(props, k))

----------------------------------------------------------------------------
(* Call sites.  A site is `<callee>.<method><targs>(url, <opts>)`:          *)
(*   method  the property name of the callee                               *)
(*   layout  "tight" when the text reads `.get(`, "spaced" when white space *)
(*           separates the name from the parenthesis (`.get (`)            *)
(*   pre     the earlier `.get` calls in the callee text, left to right    *)
(*           (`a.get(k, d).get(url, {...})` has one), each with its        *)
(*           layout, type arguments and second argument                    *)
(*   targs   the type arguments of the call, as texts                      *)
(*   opts    the second argument: absent, an object literal with its       *)
(*           properties in order, or another expression                    *)
(*   within  0, or the index of the site whose first argument contains     *)
(*           this one (sites are listed in getDescendantsOfKind order:     *)
(*           a containing site comes before the sites inside it)           *)

\* an earlier call `c.get(key, fallback)` of a callee chain: its second
\* argument is an identifier, so the locator does not match it
PlainGet == [layout |-> "tight", targs |-> <<>>, opts |-> [kind |-> "expr", props |-> <<>>]]

IsPlainGetText(g) == g.layout = "tight" /\ g.targs = <<>>

RECURSIVE IsInside(_, _, _)
IsInside(cs, j, i) ==
    /\ cs[j].within # 0
    /\ (cs[j].within = i \/ IsInside(cs, cs[j].within, i))

Descendants(cs, i) == {j \in 1..Len(cs) : IsInside(cs, j, i)}

\* The sites whose text is part of the text of site i, in text order
TextSites(cs, i) == {i} \cup Descendants(cs, i)

\* `${interfaceName}SchemaType`
TypeNameOf(interfaceName) == interfaceName \o <<"SchemaType">>

(* callText.replace(/\.get\(/, `.get<T>(`) followed by replaceWithText: the  *)
(* first `.get(` of the text of site i receives the type argument.  The     *)
(* text reads: the callee (with its earlier .get calls), the method name,   *)
(* then the arguments, which hold the sites inside i.                       *)
RECURSIVE InsertInText(_, _, _)
InsertInText(cs, order, typeName) ==
    IF order = <<>> THEN cs
    ELSE LET j == order[1]
             c == cs[j]
             hit == {k \in 1..Len(c.pre) : IsPlainGetText(c.pre[k])}
         IN  IF hit # {}
             THEN LET k == CHOOSE k \in hit : \A m \in hit : k <= m
                  IN  [cs EXCEPT ![j].pre[k].targs = <<typeName>>]
             ELSE IF c.method = "get" /\ c.layout = "tight" /\ c.targs = <<>>
             THEN [cs EXCEPT ![j].targs = <<typeName>>]
             ELSE InsertInText(cs, Tail(order), typeName)

RECURSIVE SortedSeq(_)
SortedSeq(S) ==
    IF S = {} THEN <<>>
    ELSE LET m == CHOOSE m \in S : \A x \in S : m <= x
         IN  <<m>> \o SortedSeq(S \ {m})

InsertTypeArgument(cs, i, typeName) ==
    InsertInText(cs, SortedSeq(TextSites(cs, i)), typeName)

\* the filter of findKatalistCallsWithSchemaGeneration on one call expression
IsKatalistCall(c) ==
    /\ c.method = "get"
    /\ c.opts.kind = "literal"
    /\ HasProperty(c.opts.props, "generateSchema")
    /\ HasProperty(c.opts.props, "interfaceName")

findKatalistCallsWithSchemaGeneration(cs) ==
    {i \in 1..Len(cs) : IsKatalistCall(cs[i])}

(* addTypeParametersToKatalistCalls: the loop over the sites found before   *)
(* the loop.  replaceWithText forgets the replaced node and the nodes       *)
(* inside it; touching a forgotten node throws.                             *)
RECURSIVE TypeParameterLoop(_, _, _, _)
TypeParameterLoop(cs, found, i, forgotten) ==
    IF i > Len(cs) THEN [threw |-> FALSE, calls |-> cs]
    ELSE IF i \notin found THEN TypeParameterLoop(cs, found, i + 1, forgotten)
    ELSE IF i \in forgotten THEN [threw |-> TRUE, calls |-> cs]
    ELSE IF cs[i].targs # <<>> THEN TypeParameterLoop(cs, found, i + 1, forgotten)
    ELSE LET p == cs[i].opts.props[getProperty(cs[i].opts.props, "interfaceName")]
         IN  IF p.kind = "str"
             THEN TypeParameterLoop(InsertTypeArgument(cs, i, TypeNameOf(p.name)),
                                    found, i + 1, forgotten \cup Descendants(cs, i))
             ELSE TypeParameterLoop(cs, found, i + 1, forgotten)

addTypeParametersToKatalistCalls(sf) ==
    LET r == TypeParameterLoop(sf.calls, findKatalistCallsWithSchemaGeneration(sf.calls),
                               1, {})
    IN  [threw |-> r.threw, file |-> [sf EXCEPT !.calls = r.calls]]

----------------------------------------------------------------------------
(* Import injection *)

Import(name, module, typeOnly) == [name |-> name, module |-> module, typeOnly |-> typeOnly]

\* the `hasImport` test of addKatalistSchemaImports, against the given declarations
HasSchemaImport(existingImports, schemaName, typeName) ==
    \E k \in 1..Len(existingImports) :
        /\ Includes(existingImports[k].module, schemaName)
        /\ existingImports[k].name = typeName

RECURSIVE ImportLoop(_, _, _, _, _)
ImportLoop(cs, i, imports, existingImports, basePath) ==
    IF i > Len(cs) THEN imports
    ELSE IF IsKatalistCall(cs[i]) /\ cs[i].targs # <<>>
    THEN LET typeName == cs[i].targs[1]
             schemaName == ReplaceFirst(typeName, "SchemaType", <<>>)
         IN  IF HasSchemaImport(existingImports, schemaName, typeName)
             THEN ImportLoop(cs, i + 1, imports, existingImports, basePath)
             ELSE ImportLoop(cs, i + 1,
                             Append(imports,
                                    Import(typeName, basePath \o <<"/">> \o schemaName, TRUE)),
                             existingImports, basePath)
    ELSE ImportLoop(cs, i + 1, imports, existingImports, basePath)

\* mutant: the schema directory is taken relative to the source file's own directory
addKatalistSchemaImportsBesideSource(sf, sourceFilePath) ==
    [sf EXCEPT !.imports =
        ImportLoop(sf.calls, 1, sf.imports, sf.imports, <<".", "/", "http-schemas">>)]

\* existingImports is read once, before the loop (transformer.ts:752)
addKatalistSchemaImports(sf, sourceFilePath) ==
    [sf EXCEPT !.imports =
        ImportLoop(sf.calls, 1, sf.imports, sf.imports,
                   calculateHttpSchemasPath(sourceFilePath))]

----------------------------------------------------------------------------
(* Removal passes *)

Ctor(callee, props) == [callee |-> callee, props |-> props]

\* the filter of findHttpClientCallsWithZodOutput on one new-expression
IsHttpClientWithZodOutput(n) ==
    n.callee = "HttpClient" /\ HasProperty(n.props, "zodOutput")

\* mutant: forceFileTransform is removed whether or not zodOutput is there
RemoveBothAlways(n) ==
    IF n.callee = "HttpClient"
    THEN [n EXCEPT !.props =
            RemoveProperty(RemoveProperty(n.props, "zodOutput"), "forceFileTransform")]
    ELSE n

RemoveZodOutputAt(n) ==
    IF IsHttpClientWithZodOutput(n)
    THEN [n EXCEPT !.props =
            RemoveProperty(RemoveProperty(n.props, "zodOutput"), "forceFileTransform")]
    ELSE n

removeZodOutput(sf) ==
    [sf EXCEPT !.ctors = [k \in 1..Len(sf.ctors) |-> RemoveZodOutputAt(sf.ctors[k])]]

\* mutant: the stripping also drops the headers property
StripOptionsAndHeaders(props) ==
    RemoveProperty(RemoveProperty(RemoveProperty(RemoveProperty(props,
        "generateSchema"), "interfaceName"), "sourceFile"), "headers")

StripOptions(props) ==
    RemoveProperty(RemoveProperty(RemoveProperty(props,
        "generateSchema"), "interfaceName"), "sourceFile")

\* mutant: the stripping pass leaves the options in place
KeepSchemaGenerationOptions(sf) == sf

removeSchemaGenerationOptions(sf) ==
    [sf EXCEPT !.calls =
        [i \in 1..Len(sf.calls) |->
            IF IsKatalistCall(sf.calls[i])
            THEN [sf.calls[i] EXCEPT !.opts.props = StripOptions(@)]
            ELSE sf.calls[i]]]

(* The formatter (Biome) prints every call in its canonical layout: no      *)
(* white space between the method name and the parenthesis.                 *)
FormatCall(c) ==
    [c EXCEPT !.layout = "tight",
              !.pre = [k \in 1..Len(c.pre) |-> [c.pre[k] EXCEPT !.layout = "tight"]]]

formatWithBiome(sf) ==
    [sf EXCEPT !.calls = [i \in 1..Len(sf.calls) |-> FormatCall(sf.calls[i])]]

----------------------------------------------------------------------------
(* transformHttpClientCall *)

NoText == [kind |-> "none"]

IsSource(fs, p) == p \in DOMAIN fs /\ fs[p].kind = "source"

\* the four passes, in the order of transformer.ts:59-62
RunPasses(sf, sourceFilePath) ==
    LET typed == addTypeParametersToKatalistCalls(sf)
    IN  IF typed.threw THEN [threw |-> TRUE, file |-> sf]
        ELSE [threw |-> FALSE,
              file |-> removeSchemaGenerationOptions(
                         removeZodOutput(
                           addKatalistSchemaImports(typed.file, sourceFilePath)))]

\* mutant: the unformatted text is written before the formatter runs
transformWritingBeforeFormat(fs, sourceFilePath, addTransformFilePath, biomeOk) ==
    IF ~IsSource(fs, sourceFilePath)
    THEN [result |-> "threw", out |-> NoText, writes |-> {}]
    ELSE LET r == RunPasses(fs[sourceFilePath], sourceFilePath)
             target == IF addTransformFilePath
                       THEN transformedPath(sourceFilePath)
                       ELSE sourceFilePath
         IN  IF r.threw
             THEN [result |-> "threw", out |-> NoText, writes |-> {}]
             ELSE IF ~biomeOk
             THEN [result |-> "threw", out |-> NoText,
                   writes |-> {[path |-> target, content |-> r.file]}]
             ELSE [result |-> "returned", out |-> formatWithBiome(r.file),
                   writes |-> {[path |-> target, content |-> formatWithBiome(r.file)]}]

(* The synchronous body of transformHttpClientCall on the file system fs.   *)
(* biomeOk is the formatter's outcome (it may throw).  The result names the  *)
(* text returned and the write handed to Bun's write(), which is not        *)
(* awaited.                                                                 *)
transformHttpClientCall(fs, sourceFilePath, addTransformFilePath, biomeOk) ==
    IF ~IsSource(fs, sourceFilePath)
    THEN [result |-> "threw", out |-> NoText, writes |-> {}]
    ELSE LET r == RunPasses(fs[sourceFilePath], sourceFilePath)
         IN  IF r.threw \/ ~biomeOk
             THEN [result |-> "threw", out |-> NoText, writes |-> {}]
             ELSE LET formatted == formatWithBiome(r.file)
                      target == IF addTransformFilePath
                                THEN transformedPath(sourceFilePath)
                                ELSE sourceFilePath
                  IN  [result |-> "returned", out |-> formatted,
                       writes |-> {[path |-> target, content |-> formatted]}]

\* the record kept of an invocation; via = 0 for a direct invocation
Invocation(via, fs, p, wnf, res) ==
    [via |-> via, path |-> p, wnf |-> wnf,
     input |-> IF IsSource(fs, p) THEN fs[p] ELSE NoText,
     result |-> res.result, out |-> res.out,
     target |-> IF res.writes = {} THEN <<>> ELSE (CHOOSE w \in res.writes : TRUE).path,
     rerun |-> IsSource(fs, p) /\ fs[p] \in produced]

WriteTask(w, via) == [kind |-> "write", path |-> w.path, content |-> w.content, via |-> via]

----------------------------------------------------------------------------
(* Schema synthesis: jsontoJsonSchema and addRequiredToAllObjects           *)
(* (src/src/jsonToZodSchema.ts:34-72).  A schema node is an object node     *)
(* with its properties and its `required` list, an array node with its      *)
(* items, or a scalar node; `required` is absent or a set of names.         *)

Absent == [present |-> FALSE, names |-> {}]

Required(names) == [present |-> TRUE, names |-> names]

ObjectNode(props, req) == [type |-> "object", properties |-> props, required |-> req]

ArrayNode(items) == [type |-> "array", items |-> items]

NothingInferred == [dialect |-> "none", root |-> [type |-> "none"]]

NotSynthesized == [outcome |-> "none"]

RECURSIVE addRequiredToAllObjects(_)
\* sets `required` on an object node when some property is not null-typed,
\* then visits the property schemas; a node of another type is left as it is
addRequiredToAllObjects(schema) ==
    IF schema.type = "object"
    THEN LET props == schema.properties
             requiredProps == {k \in DOMAIN props : props[k].type # "null"}
         IN  [schema EXCEPT
                !.required = IF requiredProps # {} THEN Required(requiredProps) ELSE @,
                !.properties = [k \in DOMAIN props |-> addRequiredToAllObjects(props[k])]]
    ELSE schema

\* jsontoJsonSchema on the library's inference: the title is set, the
\* dialect field deleted, `required` added; nothing is rejected
jsontoJsonSchema(jsonSchema, title) ==
    [outcome |-> "returned",
     value |-> [title |-> title, root |-> addRequiredToAllObjects(jsonSchema.root)]]

Leaves == {[type |-> "string"], [type |-> "null"]}

PropNames == {"a", "b"}

PropertyMaps(V) == UNION {[D -> V] : D \in SUBSET PropNames}

\* objects of scalars as the library infers them outside arrays: no `required`
FlatObjects == {ObjectNode(p, Absent) : p \in PropertyMaps(Leaves)}

\* objects of scalars as array items: the library computes a `required` of
\* its own there (the keys common to the elements), or none
ItemObjects ==
    UNION { {ObjectNode(p, r) : r \in {Absent} \cup {Required(n) : n \in SUBSET DOMAIN p}}
            : p \in PropertyMaps(Leaves) }

Arrays == {ArrayNode(i) : i \in Leaves \cup ItemObjects}

PropertyValues == Leaves \cup FlatObjects \cup Arrays

TopObjects ==
    {ObjectNode(("a" :> v), Absent) : v \in PropertyValues}
    \cup {ObjectNode(("a" :> v) @@ ("b" :> l), Absent) : v \in PropertyValues, l \in Leaves}

\* what generateSchema.json() returns for an object, an array or a scalar
Inferences ==
    {[dialect |-> "draft-04", root |-> r] : r \in TopObjects \cup Arrays \cup Leaves}

----------------------------------------------------------------------------
(* Caller detection: getCallerFilePath (src/unnamed/part_001:35-106).       *)
(* A stack line is a token sequence; a path is written with the tokens      *)
(* "/" and "\\" for its separators and ".ts", ".js" for the extensions the  *)
(* pattern knows (".tsx" reads ".ts" "x", ".jsx" reads ".js" "x").          *)

NoCaller == <<>>                     \* null

NoStack == [available |-> FALSE, frames |-> <<>>]

NotDetected == [ran |-> FALSE, path |-> NoCaller]

\* the characters [^\s):] of the pattern, on tokens
IsPathChar(tok) == tok \notin {" ", ")", ":", "file://"}

\* the last index of the run of path characters that follows position i
RECURSIVE RunEnd(_, _)
RunEnd(line, i) ==
    IF i < Len(line) /\ IsPathChar(line[i + 1]) THEN RunEnd(line, i + 1) ELSE i

\* the extensions at which /\/[^\s):]+\.(?:ts|js|tsx|jsx)/ can end when it
\* starts at the "/" of position i
ExtensionsAfter(line, i) ==
    {e \in (i + 2)..RunEnd(line, i) : line[e] \in {".ts", ".js"}}

\* line.match(/\(?((?:file:\/\/)?\/[^\s):]+\.(?:ts|js|tsx|jsx))/)[1]:
\* leftmost start, the run taken greedily, the first alternative that fits
fileMatch(line) ==
    LET starts == {i \in 1..Len(line) : line[i] = "/" /\ ExtensionsAfter(line, i) # {}}
    IN  IF starts = {} THEN NoCaller
        ELSE LET i == CHOOSE i \in starts : \A j \in starts : i <= j
                 ends == ExtensionsAfter(line, i)
                 e == CHOOSE e \in ends : \A j \in ends : j <= e
                 from == IF i > 1 /\ line[i - 1] = "file://" THEN i - 1 ELSE i
             IN  SubSeq(line, from, e)

\* filePath.startsWith("file://") ? filePath.substring(7) : filePath
StripFileProtocol(filePath) ==
    IF filePath # <<>> /\ filePath[1] = "file://" THEN Tail(filePath) ELSE filePath

\* filePath.replace(/\\/g, "/")
NormalizeSeparators(p) == [k \in 1..Len(p) |-> IF p[k] = "\\" THEN "/" ELSE p[k]]

EndsWith(s, suffix) ==
    Len(suffix) <= Len(s) /\ SubSeq(s, Len(s) - Len(suffix) + 1, Len(s)) = suffix

isKatalistLibraryFile(normalizedPath) ==
    \/ Includes(normalizedPath, <<"/", "node_modules", "/", "katalist", "/">>)
    \/ EndsWith(normalizedPath, <<"/", "katalist", "/", "src", "/", "katalist", ".ts">>)
    \/ Includes(normalizedPath, <<"/", "katalist", "/", "dist", "/", "index", ".js">>)
    \/ Includes(normalizedPath, <<"/", "katalist", "/", "dist", "/", "index", ".cjs">>)

isNodeModuleFile(normalizedPath) ==
    /\ Includes(normalizedPath, <<"/", "node_modules", "/">>)
    /\ ~isKatalistLibraryFile(normalizedPath)

isInternalLibrary(normalizedPath) ==
    \/ isKatalistLibraryFile(normalizedPath)
    \/ isNodeModuleFile(normalizedPath)
    \/ Includes(normalizedPath, <<"ts-morph">>)

\* the loop over stackLines: the first line whose matched path is not internal;
\* the path returned is filePath, not normalizedPath
RECURSIVE DetectLoop(_)
DetectLoop(stackLines) ==
    IF stackLines = <<>> THEN NoCaller
    ELSE LET m == fileMatch(stackLines[1])
             filePath == StripFileProtocol(m)
         IN  IF m = NoCaller THEN DetectLoop(Tail(stackLines))
             ELSE IF ~isInternalLibrary(NormalizeSeparators(filePath)) THEN filePath
             ELSE DetectLoop(Tail(stackLines))

\* a frame of the trace: "paren" reads `at fn (<path>:1:1)`, "url" reads
\* `at file://<path>:1:1`, "native" reads `at fn (native)`
Frame(form, path) == [form |-> form, path |-> path]

LineText(f) ==
    IF f.form = "paren" THEN <<"at", " ", "fn", " ", "(">> \o f.path \o <<":", "1", ":", "1", ")">>
    ELSE IF f.form = "url" THEN <<"at", " ", "file://">> \o f.path \o <<":", "1", ":", "1">>
    ELSE <<"at", " ", "fn", " ", "(", "native", ")">>

\* error.stack.split("\n"): the message line, then one line per frame
StackLines(frames) == << <<"Error">> >> \o [k \in 1..Len(frames) |-> LineText(frames[k])]

getCallerFilePath(st) ==
    IF ~st.available THEN NoCaller ELSE DetectLoop(StackLines(st.frames))

MaxFrames == 2       \* frames of a stack trace

LibInstalled ==
    Frame("paren", <<"/", "proj", "/", "node_modules", "/", "katalist", "/", "dist", "/",
                     "index", ".js">>)
LibDev == Frame("paren", <<"/", "work", "/", "katalist", "/", "src", "/", "katalist", ".ts">>)
Dependency == Frame("paren", <<"/", "proj", "/", "node_modules", "/", "ky", "/", "index", ".js">>)
TsMorph == Frame("paren", <<"/", "opt", "/", "ts-morph", "/", "dist", "/", "main", ".js">>)
UserTs == Frame("paren", <<"/", "proj", "/", "src", "/", "api", ".ts">>)
UserUrl == Frame("url", <<"/", "proj", "/", "src", "/", "api", ".ts">>)
UserTsx == Frame("paren", <<"/", "proj", "/", "src", "/", "App", ".ts", "x">>)
UserMixed == Frame("paren", <<"/", "proj", "\\", "src", "\\", "api", ".ts">>)
UserWindows == Frame("paren", <<"C", ":", "\\", "proj", "\\", "src", "\\", "api", ".ts">>)
Native == Frame("native", <<>>)

Frames ==
    {LibInstalled, LibDev, Dependency, TsMorph, UserTs, UserUrl, UserTsx, UserMixed,
     UserWindows, Native}

Stacks ==
    {NoStack} \cup
    UNION { {[available |-> TRUE, frames |-> fs] : fs \in [1..n -> Frames]} : n \in 0..MaxFrames }

----------------------------------------------------------------------------
(* The source files and paths the engine is run on *)

GenerateSchema == Prop("generateSchema", "true", <<>>)
InterfaceName(n) == Prop("interfaceName", "str", n)
InterfaceNameExpr == Prop("interfaceName", "expr", <<>>)
Headers == Prop("headers", "obj", <<>>)
SourceFileProp == Prop("sourceFile", "str", <<"api", ".ts">>)
Timeout == Prop("timeout", "expr", <<>>)
GenerateInputSchema == Prop("generateInputSchema", "true", <<>>)
InputInterfaceName == Prop("inputInterfaceName", "str", <<"CreatePost", "Input">>)

User == <<"User">>
Post == <<"Post">>
SchemaTypeInfo == <<"SchemaType", "Info">>      \* the name "SchemaTypeInfo"

Literal(props) == [kind |-> "literal", props |-> props]
NoOptions == [kind |-> "absent", props |-> <<>>]
SpreadOptions == [kind |-> "expr", props |-> <<>>]

Site(method, layout, pre, targs, opts) ==
    [method |-> method, layout |-> layout, pre |-> pre, targs |-> targs,
     opts |-> opts, within |-> 0]

TaggedLiterals ==
    { <<GenerateSchema, InterfaceName(User)>>,
      <<GenerateSchema, InterfaceName(Post)>>,
      <<Headers, GenerateSchema, Timeout, InterfaceName(User), SourceFileProp>>,
      <<GenerateSchema, InterfaceNameExpr>>,
      <<GenerateInputSchema, InputInterfaceName, GenerateSchema, InterfaceName(Post)>>,
      <<GenerateSchema, InterfaceName(SchemaTypeInfo)>> }

SiteShapes ==
    { Site("get", "tight", <<>>, <<>>, Literal(l)) : l \in TaggedLiterals }
    \cup
    { Site("get", "spaced", <<>>, <<>>, Literal(<<GenerateSchema, InterfaceName(User)>>)),
      Site("get", "tight", <<PlainGet>>, <<>>,
           Literal(<<GenerateSchema, InterfaceName(Post)>>)),
      Site("get", "tight", <<>>, << <<"Foo">> >>,
           Literal(<<GenerateSchema, InterfaceName(User)>>)),
      Site("get", "tight", <<>>, <<TypeNameOf(User)>>, Literal(<<>>)),
      Site("get", "tight", <<>>, <<>>, NoOptions),
      Site("get", "tight", <<>>, <<>>, SpreadOptions),
      Site("get", "tight", <<>>, <<>>, Literal(<<Headers, Timeout>>)),
      Site("post", "tight", <<>>, <<>>,
           Literal(<<GenerateSchema, InterfaceName(User)>>)) }

\* within[j] is 0, the site before j, or a site the site before j is inside
WellNested(cs) ==
    \A j \in 1..Len(cs) :
        \/ cs[j].within = 0
        \/ /\ j > 1
           /\ (cs[j].within = j - 1 \/ IsInside(cs, j - 1, cs[j].within))

\* the shapes that fill a file; at most one site of a file has another shape
CoreShapes ==
    { Site("get", "tight", <<>>, <<>>, Literal(<<GenerateSchema, InterfaceName(User)>>)),
      Site("get", "tight", <<>>, <<>>, Literal(<<GenerateSchema, InterfaceName(Post)>>)),
      Site("get", "tight", <<>>, <<>>, Literal(<<Headers, Timeout>>)) }

Shape(s) == [s EXCEPT !.within = 0]

SiteLists ==
    UNION { { cs \in [1..n -> { [s EXCEPT !.within = w] : s \in SiteShapes, w \in 0..(n - 1) }] :
                /\ WellNested(cs)
                /\ Cardinality({j \in 1..n : Shape(cs[j]) \notin CoreShapes}) <= 1 }
            : n \in 0..MaxCalls }

SrcApi == << <<"proj">>, <<"src">>, <<"api", ".ts">> >>           \* /proj/src/api.ts
DotTsDir == << <<"proj">>, <<"my", ".ts", "app">>, <<"api", ".ts">> >>  \* /proj/my.tsapp/api.ts
RootJs == << <<"proj">>, <<"client", ".js">> >>                   \* /proj/client.js
Missing == << <<"proj">>, <<"src">>, <<"gone", ".ts">> >>         \* no such file

SourcePaths == {SrcApi, DotTsDir, RootJs}

ImportsAt(p) ==
    { <<>>,
      <<Import(TypeNameOf(User), calculateHttpSchemasPath(p) \o <<"/">> \o User, TRUE)>>,
      <<Import(TypeNameOf(User), <<".", "/", "types">>, FALSE)>> }

CtorLists ==
    { <<>>,
      <<Ctor("HttpClient", <<Prop("baseUrl", "expr", <<>>), Prop("zodOutput", "obj", <<>>),
                             Prop("forceFileTransform", "true", <<>>)>>)>> }

BaseUrl == Prop("baseUrl", "expr", <<>>)
ZodOutput == Prop("zodOutput", "obj", <<>>)
ForceFileTransform == Prop("forceFileTransform", "true", <<>>)

\* further constructor sites: zodOutput alone, forceFileTransform without
\* zodOutput, another class, and two constructors in one file
MoreCtorLists ==
    { <<Ctor("HttpClient", <<ZodOutput>>)>>,
      <<Ctor("HttpClient", <<BaseUrl, ForceFileTransform>>)>>,
      <<Ctor("OtherClient", <<ZodOutput, ForceFileTransform>>)>>,
      <<Ctor("HttpClient", <<ForceFileTransform, BaseUrl, ZodOutput, Headers>>),
        Ctor("HttpClient", <<BaseUrl, ForceFileTransform>>)>> }

SourceFile(imports, ctors, cs) ==
    [kind |-> "source", imports |-> imports, ctors |-> ctors, calls |-> cs]

\* every shape at /proj/src/api.ts; the short files also at the other paths
\* and with a constructor site
InitialDisks ==
    { (SrcApi :> SourceFile(<<>>, <<>>, cs)) : cs \in SiteLists }
    \cup
    UNION { { (p :> SourceFile(i, c, cs)) :
                i \in ImportsAt(p), c \in CtorLists,
                cs \in {l \in SiteLists : Len(l) < MaxCalls} } : p \in SourcePaths }
    \cup
    { (SrcApi :> SourceFile(<<>>, c, cs)) :
        c \in MoreCtorLists,
        cs \in {<<>>, <<Site("get", "tight", <<>>, <<>>,
                             Literal(<<GenerateSchema, InterfaceName(User)>>))>>} }

----------------------------------------------------------------------------
(* The constructor-based form: addTypeToHttpClientCall and the               *)
(* variable-correlation map (src/src/transformer.ts:407-483, 535-692,        *)
(* 713-741, 813-827).  The file is read as its scopes in document order; a   *)
(* scope holds one declaration `const <variable> = new HttpClient({...})`    *)
(* and one method call on a variable, and is described by the chain of the   *)
(* nodes around them, innermost first.                                       *)

Node(kind, name, initializer) == [kind |-> kind, name |-> name, initializer |-> initializer]

isFunctionVariableDeclaration(node) ==
    /\ node.kind = "VariableDeclaration"
    /\ node.initializer \in {"ArrowFunction", "FunctionExpression"}

getNodeName(node) ==
    IF node.kind \in {"VariableDeclaration", "FunctionDeclaration", "FunctionExpression"}
       /\ node.name # ""
    THEN node.name
    ELSE "anonymous"

RECURSIVE ContainingLoop(_, _)
\* the while loop of findContainingFunctionName over the ancestors
ContainingLoop(ancestors, i) ==
    IF i > Len(ancestors) THEN "global"
    ELSE IF ancestors[i].kind \in {"FunctionDeclaration", "FunctionExpression"}
    THEN getNodeName(ancestors[i])
    ELSE IF ancestors[i].kind = "ArrowFunction"
    THEN IF i < Len(ancestors) /\ ancestors[i + 1].kind = "VariableDeclaration"
         THEN getNodeName(ancestors[i + 1])
         ELSE "anonymous"
    ELSE IF isFunctionVariableDeclaration(ancestors[i])
    THEN getNodeName(ancestors[i])
    ELSE ContainingLoop(ancestors, i + 1)

findContainingFunctionName(ancestors) == ContainingLoop(ancestors, 1)

NoType == <<>>

\* `${schemaName}OutputSchemaType` when schemaName is a string literal
extractSchemaNameFromZodOutput(zodOutputProperty) ==
    IF zodOutputProperty.kind = "obj" /\ zodOutputProperty.name # <<>>
    THEN zodOutputProperty.name \o <<"OutputSchemaType">>
    ELSE NoType

extractTypeFromHttpClientArgs(props) ==
    IF HasProperty(props, "zodOutput")
    THEN extractSchemaNameFromZodOutput(props[getProperty(props, "zodOutput")])
    ELSE NoType

\* the sentinel a filter uses to ask for anonymous functions
AnonymousRequest == "<anonymous>"

\* Array.prototype.includes
ArrayIncludes(arr, x) == \E k \in 1..Len(arr) : arr[k] = x

EmptyMap == [map |-> <<>>, order |-> <<>>, kept |-> {}, processedFirstFunction |-> FALSE]

\* Map.prototype.set: a new key goes to the end of the iteration order
MapSet(acc, key, value) ==
    [acc EXCEPT !.map = (key :> value) @@ acc.map,
                !.order = IF key \in DOMAIN acc.map THEN @ ELSE Append(@, key)]

RECURSIVE ExtractLoop(_, _, _, _)
\* the loop of extractHttpClientVariablesWithZodOutput over the constructor
\* sites that have a zodOutput property; kept = the sites entered in the map
ExtractLoop(scopes, functionNames, i, acc) ==
    IF i > Len(scopes) THEN acc
    ELSE LET variableName == scopes[i].variable
             functionName == findContainingFunctionName(scopes[i].ancestors)
             typeName == extractTypeFromHttpClientArgs(scopes[i].ctor.props)
         IN  IF ~IsHttpClientWithZodOutput(scopes[i].ctor)
             THEN ExtractLoop(scopes, functionNames, i + 1, acc)
             ELSE IF /\ functionNames.given /\ Len(functionNames.names) > 0
                     /\ ~ArrayIncludes(functionNames.names, functionName)
                     /\ ~ArrayIncludes(functionNames.names, AnonymousRequest)
             THEN ExtractLoop(scopes, functionNames, i + 1, acc)
             ELSE IF /\ functionNames.given
                     /\ ArrayIncludes(functionNames.names, AnonymousRequest)
                     /\ acc.processedFirstFunction
             THEN ExtractLoop(scopes, functionNames, i + 1, acc)
             ELSE IF typeName # NoType
             THEN ExtractLoop(scopes, functionNames, i + 1,
                     [MapSet(acc, <<variableName, functionName>>,
                             [typeName |-> typeName, functionName |-> functionName])
                        EXCEPT !.kept = @ \cup {i}, !.processedFirstFunction = TRUE])
             ELSE ExtractLoop(scopes, functionNames, i + 1, acc)

extractHttpClientVariablesWithZodOutput(scopes, functionNames) ==
    ExtractLoop(scopes, functionNames, 1, EmptyMap)

\* the names of the variables bound to `new HttpClient(...)`
httpClientVariables(scopes) ==
    {scopes[i].variable : i \in {j \in 1..Len(scopes) : scopes[j].ctor.callee = "HttpClient"}}

\* the filter of findHttpClientMethodCalls on the call of scope i
IsHttpClientMethodCall(scopes, i) ==
    /\ scopes[i].call.object \in httpClientVariables(scopes)
    /\ scopes[i].call.method \in {"get", "post", "put", "delete"}

\* the call of scope i after addTypeParametersToMethodCalls
TypedMethodCall(scopes, i, httpClientToTypeMap) ==
    LET call == scopes[i].call
        key == <<call.object, findContainingFunctionName(scopes[i].ancestors)>>
    IN  IF /\ IsHttpClientMethodCall(scopes, i)
           /\ key \in DOMAIN httpClientToTypeMap
           /\ call.targs = <<>>
        THEN [call EXCEPT !.targs = <<httpClientToTypeMap[key].typeName>>]
        ELSE call

addTypeParametersToMethodCalls(scopes, httpClientToTypeMap) ==
    [i \in 1..Len(scopes) |-> TypedMethodCall(scopes, i, httpClientToTypeMap)]

\* one type-only import per value of the map, in the map's iteration order;
\* the file has no import before
addSchemaTypeImports(sourceFilePath, acc) ==
    [k \in 1..Len(acc.order) |->
        LET typeName == acc.map[acc.order[k]].typeName
            schemaName == ReplaceFirst(typeName, "OutputSchemaType", <<>>)
        IN  Import(typeName,
                   calculateHttpSchemasPath(sourceFilePath) \o <<"/">> \o schemaName
                       \o <<"Output">>,
                   TRUE)]

addTypeToHttpClientCall(file) ==
    LET acc == extractHttpClientVariablesWithZodOutput(file.scopes, file.functionNames)
    IN  [done |-> TRUE,
         map |-> acc.map,
         kept |-> acc.kept,
         calls |-> addTypeParametersToMethodCalls(file.scopes, acc.map),
         imports |-> addSchemaTypeImports(file.path, acc)]

NoClientFile ==
    [path |-> <<>>, scopes |-> <<>>, functionNames |-> [given |-> FALSE, names |-> <<>>]]

NotCorrelated == [done |-> FALSE]

----------------------------------------------------------------------------
(* Specification of the engine invoked directly *)

NoInvocation ==
    [via |-> 0, path |-> <<>>, wnf |-> FALSE, input |-> NoText,
     result |-> "none", out |-> NoText, target |-> <<>>, rerun |-> FALSE]

Init ==
    /\ disk \in InitialDisks
    /\ pending = {}
    /\ tr = NoInvocation
    /\ produced = {}
    /\ calls = <<>>
    /\ failed = {}
    /\ stack = NoStack
    /\ caller = NotDetected
    /\ inferred = NothingInferred
    /\ descriptor = NotSynthesized
    /\ clientFile = NoClientFile
    /\ correlated = NotCorrelated
    /\ runs = <<>>

\* the latest invocation ran on a text the engine had returned before
RerunDone == tr.result = "returned" /\ tr.rerun

\* a direct call of transformHttpClientCall(p, wnf).  The behaviours followed
\* are: runs until one returns, its write reaching the disk, one more run.
DirectTransform(p, wnf, biomeOk) ==
    /\ \/ produced = {}
       \/ tr.result = "returned" /\ ~tr.rerun /\ pending = {} /\ failed = {}
    /\ LET res == transformHttpClientCall(disk, p, wnf, biomeOk)
       IN  /\ tr' = Invocation(0, disk, p, wnf, res)
           /\ pending' = pending \cup {WriteTask(w, 0) : w \in res.writes}
           /\ produced' = IF res.result = "returned" THEN produced \cup {res.out}
                          ELSE produced
    /\ UNCHANGED <<disk, calls, failed, stack, caller, inferred, descriptor,
                   clientFile, correlated, runs>>

\* mutant: a write to an existing file leaves the content that was there
WriteLandsKeepingExisting(t) ==
    /\ t \in pending /\ t.kind = "write"
    /\ disk' = [q \in DOMAIN disk \cup {t.path} |->
                  IF q = t.path /\ q \notin DOMAIN disk THEN t.content ELSE disk[q]]
    /\ pending' = pending \ {t}
    /\ UNCHANGED <<tr, produced, calls, failed, stack, caller, inferred, descriptor,
                   clientFile, correlated, runs>>

\* a write handed to Bun's write() reaches the disk: the whole file is replaced
WriteLands(t) ==
    /\ t \in pending /\ t.kind = "write"
    /\ disk' = [q \in DOMAIN disk \cup {t.path} |->
                  IF q = t.path THEN t.content ELSE disk[q]]
    /\ pending' = pending \ {t}
    /\ UNCHANGED <<tr, produced, calls, failed, stack, caller, inferred, descriptor,
                   clientFile, correlated, runs>>

\* the write fails; its promise is awaited by nobody
WriteFails(t) ==
    /\ t \in pending /\ t.kind = "write"
    /\ pending' = pending \ {t}
    /\ failed' = failed \cup {t}
    /\ UNCHANGED <<disk, tr, produced, calls, stack, caller, inferred, descriptor,
                   clientFile, correlated, runs>>

Next ==
    \/ \E p \in DOMAIN disk \cup {Missing}, wnf \in BOOLEAN, biomeOk \in BOOLEAN :
          DirectTransform(p, wnf, biomeOk)
    \/ \E t \in pending : WriteLands(t)
    \/ \E t \in pending : WriteFails(t)

Spec == Init /\ [][Next]_vars

----------------------------------------------------------------------------
(* The client facade (src/unnamed/part_001) and the schema writer           *)
(* (src/src/jsonToZodSchema.ts)                                             *)

\* `./http-schemas/${interfaceName}.ts`, resolved against process.cwd()
SchemaPath(interfaceName) == Cwd \o << <<"http-schemas">>, interfaceName \o <<".ts">> >>

\* the module text writeZodSchema builds around the formatted expression
SchemaModule(formatted, title) ==
    [kind |-> "schema",
     imports |-> << <<"z">> >>,
     valueExport |-> title \o <<"Schema">>,
     typeExport |-> title \o <<"SchemaType">>,
     expr |-> formatted]

\* jsonToZodSchema: the schema expression of a JSON value, named by its title
jsonToZodSchema(json, title) == [title |-> title, shape |-> json]

\* writeZodSchema up to its first await: prettier's format() is in flight
FormatTask(zodSchema, title, path, via) ==
    [kind |-> "format", path |-> path, content |-> SchemaModule(zodSchema, title), via |-> via]

\* generateSchema(data, interfaceName): synthesis is synchronous and may
\* throw; writeZodSchema is started and not awaited
generateSchema(data, interfaceName, synthOk, via) ==
    IF synthOk
    THEN [threw |-> FALSE,
          tasks |-> {FormatTask(jsonToZodSchema(data, interfaceName), interfaceName,
                                SchemaPath(interfaceName), via)}]
    ELSE [threw |-> TRUE, tasks |-> {}]

Verbs == {"get", "post", "put", "delete"}

Options(gs, name, gis, inName, sourceFile) ==
    [generateSchema |-> gs, interfaceName |-> name,
     generateInputSchema |-> gis, inputInterfaceName |-> inName,
     sourceFile |-> sourceFile]

NoOpts == Options(FALSE, <<>>, FALSE, <<>>, <<>>)

InputName == <<"CreatePost", "Input">>

\* the option records the facade is called with (absent = <<>> or FALSE)
OptionRecords ==
    { NoOpts,
      Options(TRUE, User, FALSE, <<>>, SrcApi),
      Options(TRUE, Post, FALSE, <<>>, <<>>),
      Options(TRUE, User, FALSE, <<>>, Missing),
      Options(FALSE, User, FALSE, <<>>, SrcApi),
      Options(FALSE, <<>>, TRUE, InputName, SrcApi),
      Options(TRUE, User, TRUE, InputName, <<>>),
      Options(FALSE, User, FALSE, InputName, SrcApi) }

\* request bodies: none, a JSON object, a JSON array
DataKinds == {"none", "object", "array"}

\* response bodies
Bodies == {"object", "arrayOfObjects", "arrayNullFirst", "emptyArray", "arrayOfScalars",
           "scalar", "null", "notJson"}

\* typeof json === "object" && json !== null
IsNonNullObject(body) ==
    body \in {"object", "arrayOfObjects", "arrayNullFirst", "emptyArray", "arrayOfScalars"}

IsArray(body) ==
    body \in {"arrayOfObjects", "arrayNullFirst", "emptyArray", "arrayOfScalars"}

\* json.length > 0 && typeof json[0] === "object"  (typeof null is "object")
FirstElementIsObject(body) == body \in {"arrayOfObjects", "arrayNullFirst"}

\* the guard of the caller detection at the top of each verb
WantsDetection(verb, o) ==
    /\ o.sourceFile = <<>>
    /\ IF verb \in {"get", "delete"}
       THEN o.generateSchema /\ o.interfaceName # <<>>
       ELSE o.generateSchema \/ o.generateInputSchema

\* mutant: the input schema is generated whenever an input name is given
WantsInputSchemaByName(verb, o, data) ==
    /\ verb \in {"post", "put"}
    /\ o.inputInterfaceName # <<>>
    /\ data = "object"

\* post and put: the input schema is generated before the request is issued
WantsInputSchema(verb, o, data) ==
    /\ verb \in {"post", "put"}
    /\ o.generateInputSchema /\ o.inputInterfaceName # <<>>
    /\ data = "object"

\* the decision each verb's hook takes on the parsed body:
\* "generate", "skip" (go on to the transform), "return" (leave the hook)
ShapeDecision(verb, body) ==
    IF verb = "get"
    THEN IF IsNonNullObject(body)
         THEN IF IsArray(body)
              THEN IF FirstElementIsObject(body) THEN "generate" ELSE "return"
              ELSE "generate"
         ELSE "skip"
    ELSE IF IsNonNullObject(body) /\ ~IsArray(body) THEN "generate" ELSE "skip"

\* mutant: the hook lets the engine's error escape
HookTransformUnguarded(fs, sourceFile, biomeOk) ==
    LET res == transformHttpClientCall(fs, sourceFile, FALSE, biomeOk)
    IN  [ran |-> TRUE, res |-> res, escapes |-> res.result = "threw"]

\* the transform step of each hook: try { transformHttpClientCall(f, false) } catch {}
HookTransform(fs, sourceFile, biomeOk) ==
    [ran |-> TRUE, res |-> transformHttpClientCall(fs, sourceFile, FALSE, biomeOk),
     escapes |-> FALSE]

NotRun == [ran |-> FALSE, res |-> [result |-> "none", out |-> NoText, writes |-> {}],
           escapes |-> FALSE]

Call(verb, o, data, pc) ==
    [verb |-> verb, opts |-> o, data |-> data, pc |-> pc,
     ok |-> FALSE, body |-> "none", transform |-> "none"]

\* the verb function up to the request: caller detection, input schema, ky call
FacadeCall(verb, o, data, detected, synthOk) ==
    /\ calls = <<>>
    /\ LET filled == IF WantsDetection(verb, o) THEN [o EXCEPT !.sourceFile = detected] ELSE o
           gen == IF WantsInputSchema(verb, o, data)
                  THEN generateSchema(data, o.inputInterfaceName, synthOk, Len(calls) + 1)
                  ELSE [threw |-> FALSE, tasks |-> {}]
       IN  /\ calls' = Append(calls, Call(verb, filled, data,
                                          IF gen.threw THEN "threw" ELSE "inflight"))
           /\ pending' = pending \cup gen.tasks
    /\ UNCHANGED <<disk, tr, produced, failed, stack, caller, inferred, descriptor,
                   clientFile, correlated, runs>>

\* the request fails on the network: no response, no hook
RequestFails(c) ==
    /\ c \in 1..Len(calls) /\ calls[c].pc = "inflight"
    /\ calls' = [calls EXCEPT ![c].pc = "rejected"]
    /\ UNCHANGED <<disk, pending, tr, produced, failed, stack, caller, inferred, descriptor,
                   clientFile, correlated, runs>>

\* the rest of a hook once the body is dealt with: the transform of
\* options.sourceFile, then the end of the hook
HookTail(c, ok, body, biomeOk, tasks) ==
    LET o == calls[c].opts
        t == IF o.sourceFile # <<>> THEN HookTransform(disk, o.sourceFile, biomeOk) ELSE NotRun
    IN  /\ calls' = [calls EXCEPT ![c].pc = IF t.escapes THEN "rejected" ELSE "hookdone",
                                  ![c].ok = ok, ![c].body = body,
                                  ![c].transform = t.res.result]
        /\ pending' = pending \cup tasks \cup {WriteTask(w, c) : w \in t.res.writes}
        /\ tr' = IF t.ran THEN Invocation(c, disk, o.sourceFile, FALSE, t.res) ELSE tr
        /\ produced' = IF t.res.result = "returned" THEN produced \cup {t.res.out}
                       ELSE produced

\* a response arrives and the afterResponse hook starts; with schema
\* generation requested it suspends in `await response.json()`
ResponseArrives(c, ok, body, biomeOk) ==
    /\ c \in 1..Len(calls) /\ calls[c].pc = "inflight"
    /\ LET o == calls[c].opts
       IN  IF o.generateSchema /\ o.interfaceName # <<>>
           THEN /\ calls' = [calls EXCEPT ![c].pc = "json", ![c].ok = ok, ![c].body = body]
                /\ UNCHANGED <<pending, tr, produced>>
           ELSE IF calls[c].verb = "get"
           THEN /\ calls' = [calls EXCEPT ![c].pc = "hookdone", ![c].ok = ok, ![c].body = body]
                /\ UNCHANGED <<pending, tr, produced>>
           ELSE HookTail(c, ok, body, biomeOk, {})
    /\ UNCHANGED <<disk, failed, stack, caller, inferred, descriptor,
                   clientFile, correlated, runs>>

\* the hook resumes after `await response.json()`
HookAfterJson(c, synthOk, biomeOk) ==
    /\ c \in 1..Len(calls) /\ calls[c].pc = "json"
    /\ LET call == calls[c]
           decision == ShapeDecision(call.verb, call.body)
           gen == IF decision = "generate"
                  THEN generateSchema(call.body, call.opts.interfaceName, synthOk, c)
                  ELSE [threw |-> FALSE, tasks |-> {}]
       IN  IF call.body = "notJson" \/ gen.threw
           THEN /\ calls' = [calls EXCEPT ![c].pc = "rejected"]
                /\ UNCHANGED <<pending, tr, produced>>
           ELSE IF decision = "return"
           THEN /\ calls' = [calls EXCEPT ![c].pc = "hookdone"]
                /\ UNCHANGED <<pending, tr, produced>>
           ELSE HookTail(c, call.ok, call.body, biomeOk, gen.tasks)
    /\ UNCHANGED <<disk, failed, stack, caller, inferred, descriptor,
                   clientFile, correlated, runs>>

\* ky settles the call after the hook: the response, or HTTPError when not ok
Settle(c) ==
    /\ c \in 1..Len(calls) /\ calls[c].pc = "hookdone"
    /\ calls' = [calls EXCEPT ![c].pc = IF calls[c].ok THEN "resolved" ELSE "rejected"]
    /\ UNCHANGED <<disk, pending, tr, produced, failed, stack, caller, inferred, descriptor,
                   clientFile, correlated, runs>>

\* prettier's format() resolves and writeZodSchema hands the module to write()
FormatDone(t) ==
    /\ t \in pending /\ t.kind = "format"
    /\ pending' = (pending \ {t}) \cup {[t EXCEPT !.kind = "write"]}
    /\ UNCHANGED <<disk, tr, produced, calls, failed, stack, caller, inferred, descriptor,
                   clientFile, correlated, runs>>

\* prettier's format() rejects; nobody awaits writeZodSchema
FormatFails(t) ==
    /\ t \in pending /\ t.kind = "format"
    /\ pending' = pending \ {t}
    /\ failed' = failed \cup {t}
    /\ UNCHANGED <<disk, tr, produced, calls, stack, caller, inferred, descriptor,
                   clientFile, correlated, runs>>

Tagged(n) == Site("get", "tight", <<>>, <<>>, Literal(<<GenerateSchema, InterfaceName(n)>>))

\* a file left at http-schemas/User.ts by something else
StaleContent == [kind |-> "other"]

OneTaggedCall == SourceFile(<<>>, <<>>, <<Tagged(User)>>)

\* the caller's file: two tagged calls, side by side or one inside the other;
\* or one tagged call, with a file already at the schema path
FacadeDisks ==
    { (SrcApi :> SourceFile(<<>>, <<>>, <<Tagged(User), Tagged(Post)>>)),
      (SrcApi :> SourceFile(<<>>, <<>>, <<Tagged(User), [Tagged(Post) EXCEPT !.within = 1]>>)),
      (SrcApi :> OneTaggedCall) @@ (SchemaPath(User) :> StaleContent) }

InitFacade ==
    /\ disk \in FacadeDisks
    /\ pending = {}
    /\ tr = NoInvocation
    /\ produced = {}
    /\ calls = <<>>
    /\ failed = {}
    /\ stack = NoStack
    /\ caller = NotDetected
    /\ inferred = NothingInferred
    /\ descriptor = NotSynthesized
    /\ clientFile = NoClientFile
    /\ correlated = NotCorrelated
    /\ runs = <<>>

NextFacade ==
    \/ \E verb \in Verbs, o \in OptionRecords, data \in DataKinds,
          detected \in {<<>>, SrcApi}, synthOk \in BOOLEAN :
          FacadeCall(verb, o, data, detected, synthOk)
    \/ \E c \in 1..Len(calls) : RequestFails(c)
    \/ \E c \in 1..Len(calls), ok \in BOOLEAN, body \in Bodies, biomeOk \in BOOLEAN :
          ResponseArrives(c, ok, body, biomeOk)
    \/ \E c \in 1..Len(calls), synthOk \in BOOLEAN, biomeOk \in BOOLEAN :
          HookAfterJson(c, synthOk, biomeOk)
    \/ \E c \in 1..Len(calls) : Settle(c)
    \/ \E t \in pending : FormatDone(t)
    \/ \E t \in pending : FormatFails(t)
    \/ \E t \in pending : WriteLands(t)
    \/ \E t \in pending : WriteFails(t)

SpecFacade == InitFacade /\ [][NextFacade]_vars

----------------------------------------------------------------------------
(* Specification of caller detection on its own *)

InitDetect ==
    /\ stack \in Stacks
    /\ caller = NotDetected
    /\ disk = <<>>
    /\ pending = {}
    /\ tr = NoInvocation
    /\ produced = {}
    /\ calls = <<>>
    /\ failed = {}
    /\ inferred = NothingInferred
    /\ descriptor = NotSynthesized
    /\ clientFile = NoClientFile
    /\ correlated = NotCorrelated
    /\ runs = <<>>

\* one call of getCallerFilePath on the trace
Detect ==
    /\ ~caller.ran
    /\ caller' = [ran |-> TRUE, path |-> getCallerFilePath(stack)]
    /\ UNCHANGED <<disk, pending, tr, produced, calls, failed, stack, inferred, descriptor,
                   clientFile, correlated, runs>>

NextDetect == Detect

SpecDetect == InitDetect /\ [][NextDetect]_vars

----------------------------------------------------------------------------
(* Specification of the synthesizer on its own *)

InitSynth ==
    /\ inferred \in Inferences
    /\ descriptor = NotSynthesized
    /\ clientFile = NoClientFile
    /\ correlated = NotCorrelated
    /\ runs = <<>>
    /\ disk = <<>>
    /\ pending = {}
    /\ tr = NoInvocation
    /\ produced = {}
    /\ calls = <<>>
    /\ failed = {}
    /\ stack = NoStack
    /\ caller = NotDetected

\* one call of jsontoJsonSchema(json, title)
Synthesize(title) ==
    /\ descriptor = NotSynthesized
    /\ descriptor' = jsontoJsonSchema(inferred, title)
    /\ UNCHANGED <<disk, pending, tr, produced, calls, failed, stack, caller, inferred,
                   clientFile, correlated, runs>>

NextSynth == \E title \in {User, Post} : Synthesize(title)

SpecSynth == InitSynth /\ [][NextSynth]_vars

----------------------------------------------------------------------------
(* Specification of addTypeToHttpClientCall on its own *)

MaxScopes == 2       \* scopes with a client per source file

Block == Node("Block", "", "")

\* function getUser() { const client = new HttpClient(...); client.get(...) }
InFunction(name) == <<Block, Node("FunctionDeclaration", name, "")>>
\* const getPost = async () => { ... }
InArrow(name) ==
    <<Block, Node("ArrowFunction", "", ""), Node("VariableDeclaration", name, "ArrowFunction")>>
\* it("...", async () => { ... })
InCallback == <<Block, Node("ArrowFunction", "", ""), Node("CallExpression", "", "")>>
\* class Api { load() { ... } }
InMethod(name) ==
    <<Block, Node("MethodDeclaration", name, ""), Node("ClassDeclaration", "Api", "")>>
\* at module level
AtTop == <<>>

ScopeChains == {InFunction("getUser"), InArrow("getPost"), InCallback, InMethod("load"), AtTop}

SchemaNamed(n) == Prop("zodOutput", "obj", n)

ClientCtors ==
    { Ctor("HttpClient", <<BaseUrl, SchemaNamed(User)>>),
      Ctor("HttpClient", <<BaseUrl, SchemaNamed(Post)>>),
      Ctor("HttpClient", <<BaseUrl, ZodOutput>>),
      Ctor("HttpClient", <<BaseUrl>>) }

Scope(ancestors, ctor) ==
    [ancestors |-> ancestors, variable |-> "client", ctor |-> ctor,
     call |-> [object |-> "client", method |-> "get", targs |-> <<>>]]

Named(ancestors) == ancestors \in {InFunction("getUser"), InArrow("getPost"), AtTop}

\* a name is declared once in a file, and so is `client` at module level
ScopeLists ==
    UNION { { ss \in [1..n -> {Scope(a, c) : a \in ScopeChains, c \in ClientCtors}] :
                \A i, j \in 1..n :
                    (i # j /\ Named(ss[i].ancestors)) => ss[i].ancestors # ss[j].ancestors }
            : n \in 0..MaxScopes }

FunctionNameFilters ==
    { [given |-> FALSE, names |-> <<>>],
      [given |-> TRUE, names |-> <<>>],
      [given |-> TRUE, names |-> <<"getUser">>],
      [given |-> TRUE, names |-> <<AnonymousRequest>>],
      [given |-> TRUE, names |-> <<AnonymousRequest, "getUser">>] }

InitCorrelate ==
    /\ clientFile \in { [path |-> SrcApi, scopes |-> ss, functionNames |-> f] :
                           ss \in ScopeLists, f \in FunctionNameFilters }
    /\ correlated = NotCorrelated
    /\ runs = <<>>
    /\ disk = <<>>
    /\ pending = {}
    /\ tr = NoInvocation
    /\ produced = {}
    /\ calls = <<>>
    /\ failed = {}
    /\ stack = NoStack
    /\ caller = NotDetected
    /\ inferred = NothingInferred
    /\ descriptor = NotSynthesized

\* one call of addTypeToHttpClientCall(sourceFile, functionNames)
Correlate ==
    /\ ~correlated.done
    /\ correlated' = addTypeToHttpClientCall(clientFile)
    /\ UNCHANGED <<disk, pending, tr, produced, calls, failed, stack, caller, inferred,
                   descriptor, clientFile, runs>>

NextCorrelate == Correlate

SpecCorrelate == InitCorrelate /\ [][NextCorrelate]_vars

----------------------------------------------------------------------------
(* Specification of engine invocations that overlap on one file: each       *)
(* invocation reads the file, computes and hands its whole-file write to     *)
(* write() without awaiting it; the writes reach the disk in any order,      *)
(* before or after the next invocation reads.                                *)

MaxRuns == 2         \* invocations on the file

InitOverlap ==
    /\ disk \in { (SrcApi :> SourceFile(<<>>, <<>>, cs)) : cs \in SiteLists }
    /\ pending = {}
    /\ tr = NoInvocation
    /\ produced = {}
    /\ calls = <<>>
    /\ failed = {}
    /\ stack = NoStack
    /\ caller = NotDetected
    /\ inferred = NothingInferred
    /\ descriptor = NotSynthesized
    /\ clientFile = NoClientFile
    /\ correlated = NotCorrelated
    /\ runs = <<>>

\* transformHttpClientCall(p, false): the write task carries the number of
\* the invocation that issued it
Invoke(p, biomeOk) ==
    /\ Len(runs) < MaxRuns
    /\ LET res == transformHttpClientCall(disk, p, FALSE, biomeOk)
       IN  /\ tr' = Invocation(0, disk, p, FALSE, res)
           /\ pending' = pending \cup {WriteTask(w, Len(runs) + 1) : w \in res.writes}
           /\ produced' = IF res.result = "returned" THEN produced \cup {res.out}
                          ELSE produced
           /\ runs' = Append(runs, [path |-> p, input |-> disk[p],
                                    result |-> res.result, out |-> res.out])
    /\ UNCHANGED <<disk, calls, failed, stack, caller, inferred, descriptor,
                   clientFile, correlated>>

NextOverlap ==
    \/ \E p \in DOMAIN disk, biomeOk \in BOOLEAN : Invoke(p, biomeOk)
    \/ \E t \in pending : WriteLands(t)

SpecOverlap == InitOverlap /\ [][NextOverlap]_vars

----------------------------------------------------------------------------
(* Properties of the engine *)

Returned == tr.result = "returned"

\* the options literal holds exactly the two generation properties, the name a string literal
PlainTaggedCall(c) ==
    /\ c.method = "get" /\ c.layout = "tight" /\ c.pre = <<>> /\ c.targs = <<>>
    /\ c.opts.kind = "literal" /\ Len(c.opts.props) = 2
    /\ c.opts.props[1] = GenerateSchema
    /\ c.opts.props[2].key = "interfaceName" /\ c.opts.props[2].kind = "str"

ImportsNamed(sf, typeName) == {k \in 1..Len(sf.imports) : sf.imports[k].name = typeName}

HasPrefix(s, pre) == Len(pre) <= Len(s) /\ SubSeq(s, 1, Len(pre)) = pre

\* C1: a run on a text that an earlier run returned returns that same text:
\* no type argument, no import declaration and no other change is added.
C1_TransformIdempotent ==
    (Returned /\ tr.rerun) => tr.out = tr.input

\* a rerun has happened on a text that holds a rewritten call and its import
C1_Witness ==
    /\ Returned /\ tr.rerun
    /\ \E i \in 1..Len(tr.input.calls) :
          /\ tr.input.calls[i].targs = <<TypeNameOf(User)>>
          /\ tr.input.calls[i].opts = Literal(<<>>)
    /\ ImportsNamed(tr.input, TypeNameOf(User)) # {}

C3_NoDuplicateImports ==
    Returned =>
        \A k \in (Len(tr.input.imports) + 1)..Len(tr.out.imports) :
            Cardinality(ImportsNamed(tr.out, tr.out.imports[k].name)) <= 1

\* C8: an invocation that throws hands nothing to write(): the files on disk
\* and the writes in flight are what they were before it.
C8_ThrowWritesNothing ==
    [][(tr' # tr /\ tr'.result = "threw") => (disk' = disk /\ pending' = pending)]_vars

\* an invocation on an existing file threw (a pass or the formatter failed)
C8_Witness ==
    /\ tr.result = "threw" /\ tr.input # NoText
    /\ pending = {} /\ disk[tr.path] = tr.input

\* `.transformed` inserted before the extension of the file name
MarkerBeforeExtension(p) ==
    LET name == Last(p)
        dots == {k \in 1..Len(name) : name[k] \in {".ts", ".js"}}
        e == CHOOSE k \in dots : \A m \in dots : m <= k
    IN  Append(dirname(p),
               SubSeq(name, 1, e - 1) \o <<".transformed">> \o SubSeq(name, e, Len(name)))

\* C9: with writeNewFile false the write goes to the source file itself; with
\* writeNewFile true it goes to the sibling whose name has `.transformed`
\* before the extension, for every path.
C9_WriteModeTarget ==
    Returned =>
        tr.target = IF tr.wnf THEN MarkerBeforeExtension(tr.path) ELSE tr.path

\* the site is one the locator matches: a .get call whose second argument is
\* an object literal with a generateSchema and an interfaceName property
TaggedSite(c) ==
    /\ c.method = "get" /\ c.opts.kind = "literal"
    /\ \E k \in 1..Len(c.opts.props) : c.opts.props[k].key = "generateSchema"
    /\ \E k \in 1..Len(c.opts.props) : c.opts.props[k].key = "interfaceName"

NotGenerationOption(p) == p.key \notin {"generateSchema", "interfaceName", "sourceFile"}

\* C10: the options literal of every tagged site loses exactly generateSchema,
\* interfaceName and sourceFile, its other properties stay as they were and
\* in their order; the options of every other call are untouched.
C10_StripExactly ==
    Returned =>
        /\ Len(tr.out.calls) = Len(tr.input.calls)
        /\ \A i \in 1..Len(tr.input.calls) :
              LET c == tr.input.calls[i]
              IN  IF TaggedSite(c)
                  THEN tr.out.calls[i].opts =
                         Literal(SelectSeq(c.opts.props, NotGenerationOption))
                  ELSE tr.out.calls[i].opts = c.opts

\* a tagged site with headers and timeout around the generation options was
\* stripped next to a call whose options were left alone
C10_Witness ==
    /\ Returned
    /\ \E i, j \in 1..Len(tr.input.calls) :
          /\ tr.input.calls[i].opts =
                Literal(<<Headers, GenerateSchema, Timeout, InterfaceName(User), SourceFileProp>>)
          /\ tr.out.calls[i].opts = Literal(<<Headers, Timeout>>)
          /\ ~TaggedSite(tr.input.calls[j])
          /\ tr.input.calls[j].opts.kind = "literal"
          /\ tr.input.calls[j].opts.props # <<>>

\* a .get call whose second argument is not an object literal
Malformed(c) == c.opts.kind = "expr"

HasMalformed(sf) ==
    \E i \in 1..Len(sf.calls) :
        \/ sf.calls[i].method = "get" /\ Malformed(sf.calls[i])
        \/ \E k \in 1..Len(sf.calls[i].pre) : Malformed(sf.calls[i].pre[k])

\* no tagged site of the file lies inside another tagged site
NoTaggedInsideTagged(sf) ==
    \A i, j \in 1..Len(sf.calls) :
        (TaggedSite(sf.calls[i]) /\ TaggedSite(sf.calls[j])) => ~IsInside(sf.calls, j, i)

\* C11: every .get call whose options argument is not an object literal, a
\* call site of its own or an earlier call of a callee chain, comes out of
\* the transform as the formatter prints the input call; and such a call
\* makes no pass throw.
C11_MalformedSiteUntouched ==
    /\ Returned =>
          /\ Len(tr.out.calls) = Len(tr.input.calls)
          /\ \A i \in 1..Len(tr.input.calls) :
                LET c == tr.input.calls[i]
                    d == tr.out.calls[i]
                IN  /\ (c.method = "get" /\ Malformed(c)) => d = FormatCall(c)
                    /\ Len(d.pre) = Len(c.pre)
                    /\ \A k \in 1..Len(c.pre) :
                          Malformed(c.pre[k]) => d.pre[k] = FormatCall(c).pre[k]
    /\ (tr.input # NoText /\ HasMalformed(tr.input) /\ NoTaggedInsideTagged(tr.input)) =>
          ~RunPasses(tr.input, tr.path).threw

NotEmbeddedSchemaProp(p) == p.key \notin {"zodOutput", "forceFileTransform"}

\* C12: every `new HttpClient({...})` whose literal has a zodOutput property
\* loses zodOutput and forceFileTransform and keeps its other properties in
\* their order; every other constructor call is as it was.
C12_EmbeddedSchemaRemoved ==
    Returned =>
        /\ Len(tr.out.ctors) = Len(tr.input.ctors)
        /\ \A k \in 1..Len(tr.input.ctors) :
              LET n == tr.input.ctors[k]
              IN  IF n.callee = "HttpClient"
                     /\ \E j \in 1..Len(n.props) : n.props[j].key = "zodOutput"
                  THEN tr.out.ctors[k] =
                         Ctor("HttpClient", SelectSeq(n.props, NotEmbeddedSchemaProp))
                  ELSE tr.out.ctors[k] = n

\* a constructor with zodOutput was cleaned next to one that has
\* forceFileTransform without zodOutput, which was left alone
C12_Witness ==
    /\ Returned /\ Len(tr.input.ctors) = 2
    /\ tr.input.ctors[1].props = <<ForceFileTransform, BaseUrl, ZodOutput, Headers>>
    /\ tr.out.ctors[1].props = <<BaseUrl, Headers>>
    /\ tr.out.ctors[2] = Ctor("HttpClient", <<BaseUrl, ForceFileTransform>>)

----------------------------------------------------------------------------
(* Properties of the facade *)

OnDisk(p) == p \in DOMAIN disk

\* the schema module of title n is on disk with its two exports
SchemaModuleOnDisk(n) ==
    /\ OnDisk(SchemaPath(n))
    /\ disk[SchemaPath(n)].kind = "schema"
    /\ disk[SchemaPath(n)].valueExport = n \o <<"Schema">>
    /\ disk[SchemaPath(n)].typeExport = n \o <<"SchemaType">>

\* the write issued by the transform of call c has reached the disk
SourceWriteLanded(c) ==
    /\ tr.via = c /\ Returned
    /\ WriteTask([path |-> tr.target, content |-> tr.out], c) \notin pending \cup failed

\* call c asked for the output schema and got a JSON object
GeneratesFromObject(c) ==
    /\ calls[c].opts.generateSchema /\ calls[c].opts.interfaceName # <<>>
    /\ calls[c].body = "object"

\* C4: once a successful response has arrived, the call does not fail,
\* whatever happens to the automatic schema generation.
C4_GenerationNeverFailsCall ==
    \A c \in 1..Len(calls) : calls[c].ok => calls[c].pc # "rejected"

\* C5: an error thrown by the engine inside the hook is swallowed: with a
\* successful response the call goes on to return that response.
C5_TransformErrorSwallowed ==
    \A c \in 1..Len(calls) :
        (calls[c].transform = "threw" /\ calls[c].ok) => calls[c].pc \in {"hookdone", "resolved"}

\* the engine threw inside the hook and the call returned its response
C5_Witness ==
    \E c \in 1..Len(calls) :
        calls[c].transform = "threw" /\ calls[c].ok /\ calls[c].pc = "resolved"

\* C6: within one facade call the schema module of the requested interface
\* name is on disk before the engine's rewrite of the caller's file is.
C6_SchemaBeforeRewrite ==
    \A c \in 1..Len(calls) :
        (GeneratesFromObject(c) /\ SourceWriteLanded(c)) =>
            SchemaModuleOnDisk(calls[c].opts.interfaceName)

\* C7: when a get with generateSchema, interfaceName N and a JSON object
\* response has resolved, http-schemas/N.ts exists with NSchema and NSchemaType.
C7_SchemaOnDiskAtResolve ==
    \A c \in 1..Len(calls) :
        (calls[c].verb = "get" /\ GeneratesFromObject(c) /\ calls[c].pc = "resolved") =>
            SchemaModuleOnDisk(calls[c].opts.interfaceName)

\* the schema modules writeZodSchema has been started for: still in
\* format() or write(), failed, or on disk
SchemasIssued ==
    {t.content : t \in {u \in pending \cup failed : u.content.kind = "schema"}}
    \cup {disk[p] : p \in {q \in DOMAIN disk : disk[q].kind = "schema"}}

IssuedFor(title, json) == SchemaModule(jsonToZodSchema(json, title), title) \in SchemasIssued

IssuedTitled(title) == \E m \in SchemasIssued : m.expr.title = title

\* C13: a schema is synthesized from an array response only if the array is
\* non-empty and its first element is a JSON object: never from an empty
\* array, an array of scalars or an array whose first element is null.
C13_ArrayShapeValidated ==
    \A m \in SchemasIssued :
        IsArray(m.expr.shape) => m.expr.shape = "arrayOfObjects"

\* the hook of call c has run to its end
HookEnded(c) == calls[c].pc \in {"hookdone", "resolved"}

\* C14: for each verb, once the hook has run on a response that is a JSON
\* object or a non-empty array of objects, with generateSchema true and
\* interfaceName N, a schema module for N has been issued from that body.
C14_AllVerbsSameShapes ==
    \A c \in 1..Len(calls) :
        ( /\ calls[c].opts.generateSchema /\ calls[c].opts.interfaceName # <<>>
          /\ calls[c].body \in {"object", "arrayOfObjects"}
          /\ HookEnded(c) ) =>
            IssuedFor(calls[c].opts.interfaceName, calls[c].body)

\* C15: as long as a post or put call has received no response, no input
\* schema module has been issued for its inputInterfaceName.
C15_InputSchemaAfterResponse ==
    \A c \in 1..Len(calls) :
        (calls[c].verb \in {"post", "put"} /\ calls[c].body = "none") =>
            ~IssuedTitled(calls[c].opts.inputInterfaceName)

\* the schema m was asked for by call c
AskedFor(c, m) ==
    \/ /\ calls[c].opts.generateSchema
       /\ m.expr.title = calls[c].opts.interfaceName
       /\ m.expr.shape = calls[c].body
    \/ /\ calls[c].opts.generateInputSchema /\ calls[c].verb \in {"post", "put"}
       /\ m.expr.title = calls[c].opts.inputInterfaceName
       /\ m.expr.shape = calls[c].data

----------------------------------------------------------------------------
(* Properties of caller detection *)

\* the frame names a source file that is neither the library's, nor a
\* dependency's, nor of a known dependency fragment
UserFrame(f) ==
    f.form # "native" /\ ~isInternalLibrary(NormalizeSeparators(f.path))

\* C17: detection returns none when the trace is unavailable or no frame is
\* a user frame, and otherwise the path of the first user frame in trace
\* order (in either separator form); a path it returns is never classified
\* library-internal, third-party or a dependency fragment.
C17_FirstUserFrame ==
    caller.ran =>
        LET users == {k \in 1..Len(stack.frames) : UserFrame(stack.frames[k])}
        IN  /\ IF ~stack.available \/ users = {}
               THEN caller.path = NoCaller
               ELSE LET k == CHOOSE k \in users : \A j \in users : k <= j
                    IN  NormalizeSeparators(caller.path) =
                          NormalizeSeparators(stack.frames[k].path)
            /\ caller.path # NoCaller =>
                  ~isInternalLibrary(NormalizeSeparators(caller.path))

\* C18: on a trace of one library-internal frame followed by one user frame,
\* detection returns the user frame's path without the file:// prefix and
\* with every separator a forward slash.
C18_StrippedAndNormalized ==
    ( /\ caller.ran /\ stack.available /\ Len(stack.frames) = 2
      /\ stack.frames[1].form # "native"
      /\ isKatalistLibraryFile(NormalizeSeparators(stack.frames[1].path))
      /\ UserFrame(stack.frames[2]) ) =>
        /\ caller.path = NormalizeSeparators(stack.frames[2].path)
        /\ \A k \in 1..Len(caller.path) : caller.path[k] \notin {"\\", "file://"}

----------------------------------------------------------------------------
(* Properties of the synthesizer *)

NonNullProperties(node) == {k \in DOMAIN node.properties : node.properties[k].type # "null"}

RECURSIVE RequiredExact(_)
\* every object node of the tree, inside array items too, has `required`
\* equal to its non-null property names (an absent list being the empty one)
RequiredExact(node) ==
    IF node.type = "object"
    THEN /\ node.required.names = NonNullProperties(node)
         /\ \A k \in DOMAIN node.properties : RequiredExact(node.properties[k])
    ELSE IF node.type = "array" THEN RequiredExact(node.items)
    ELSE TRUE

\* C19: in the descriptor the synthesizer returns, every object node, at any
\* depth and inside array items, has its `required` set equal to the names
\* of its properties whose inferred type is not null.
C19_RequiredEverywhere ==
    descriptor.outcome = "returned" => RequiredExact(descriptor.value.root)

\* the value is an object, or an array whose elements are objects
SupportedShape(node) ==
    \/ node.type = "object"
    \/ node.type = "array" /\ node.items.type = "object"

\* C20: handed an array whose first element is not an object, or a value
\* that is neither an object nor an array, the synthesizer signals
\* UnsupportedShape and returns no descriptor.
C20_UnsupportedShapeRejected ==
    (descriptor.outcome # "none" /\ ~SupportedShape(inferred.root)) =>
        descriptor.outcome = "UnsupportedShape"

----------------------------------------------------------------------------
(* Further properties of the facade and the engine *)

\* writeZodSchema, started by call c for its output schema, has completed
OutputSchemaWritten(c) ==
    /\ calls[c].opts.generateSchema /\ calls[c].opts.interfaceName # <<>>
    /\ ShapeDecision(calls[c].verb, calls[c].body) = "generate"
    /\ HookEnded(c)
    /\ \A t \in pending \cup failed : t.path # SchemaPath(calls[c].opts.interfaceName)

\* C21: once writeZodSchema has completed for title T, the file at its path
\* is exactly: one import of the validation namespace, the value export
\* TSchema bound to the formatted expression, the type export TSchemaType;
\* nothing of an earlier content of the path is left.
C21_SchemaModuleContent ==
    \A c \in 1..Len(calls) :
        OutputSchemaWritten(c) =>
            LET T == calls[c].opts.interfaceName
            IN  /\ SchemaPath(T) \in DOMAIN disk
                /\ disk[SchemaPath(T)] =
                      [kind |-> "schema",
                       imports |-> << <<"z">> >>,
                       valueExport |-> T \o <<"Schema">>,
                       typeExport |-> T \o <<"SchemaType">>,
                       expr |-> jsonToZodSchema(calls[c].body, T)]

\* the module for User has replaced the file that was at http-schemas/User.ts
C21_Witness ==
    /\ disk[SrcApi] = OneTaggedCall
    /\ \E c \in 1..Len(calls) :
          /\ OutputSchemaWritten(c) /\ calls[c].opts.interfaceName = User
          /\ calls[c].pc = "resolved"
          /\ disk[SchemaPath(User)].kind = "schema"

\* the keys of the options record that the library reads
RecognizedKeys ==
    {"generateSchema", "interfaceName", "generateInputSchema", "inputInterfaceName",
     "headers", "sourceFile"}

\* C22: after the engine has processed a tagged call site, headers is the
\* only recognized key left in its options literal: generateSchema,
\* interfaceName, generateInputSchema, inputInterfaceName and sourceFile are
\* gone.
C22_OnlyHeadersLeft ==
    Returned =>
        \A i \in 1..Len(tr.input.calls) :
            TaggedSite(tr.input.calls[i]) =>
                \A k \in 1..Len(tr.out.calls[i].opts.props) :
                    tr.out.calls[i].opts.props[k].key \in RecognizedKeys
                        => tr.out.calls[i].opts.props[k].key = "headers"

\* C23: when the engine is invoked directly and the final write of the
\* rewritten source fails, the failure reaches the caller:
\* transformHttpClientCall has not returned normally with the formatted text.
C23_WriteFailurePropagates ==
    \A t \in failed :
        (t.kind = "write" /\ tr.via = 0 /\ t.path = tr.target)
            => ~(tr.result = "returned" /\ tr.out = t.content)

\* C25: after a transform, every call site whose generation options were
\* removed carries a type argument on that same call expression, and no call
\* expression other than a matched tagged call has gained a type argument:
\* neither another call site nor an earlier call of a callee chain.
C25_StripOnlyWithType ==
    Returned =>
        \A i \in 1..Len(tr.input.calls) :
            LET c == tr.input.calls[i]
                d == tr.out.calls[i]
            IN  /\ (TaggedSite(c) /\ d.opts # c.opts) => d.targs # <<>>
                /\ ~TaggedSite(c) => d.targs = c.targs
                /\ \A k \in 1..Len(c.pre) : d.pre[k].targs = c.pre[k].targs

\* C26: for every non-empty interface name N, the import added for a tagged
\* call with interfaceName N names the type NSchemaType, and its module
\* specifier is the computed path of the schema directory followed by /N,
\* the module written for title N: the type name without its suffix is N.
C26_ImportTargetsSchemaModule ==
    Returned =>
        \A i \in 1..Len(tr.input.calls) :
            LET c == tr.input.calls[i]
                N == c.opts.props[2].name
            IN  (PlainTaggedCall(c) /\ N # <<>>
                    /\ ImportsNamed(tr.input, N \o <<"SchemaType">>) = {}) =>
                    \E k \in ImportsNamed(tr.out, N \o <<"SchemaType">>) :
                        tr.out.imports[k].module =
                            calculateHttpSchemasPath(tr.path) \o <<"/">> \o N

\* C27: whatever facade calls have run on a caller file with several tagged
\* call sites, every site of the file that has been rewritten to
\* <NSchemaType> has an N for which a facade call issued a schema write: a
\* transform triggered by one call rewrites no site of an interface name
\* that was never generated.
C27_RewrittenSitesHaveSchema ==
    IsSource(disk, SrcApi) =>
        \A i \in 1..Len(disk[SrcApi].calls) :
            disk[SrcApi].calls[i].targs # <<>> =>
                \E N \in {User, Post} :
                    /\ disk[SrcApi].calls[i].targs = <<TypeNameOf(N)>>
                    /\ IssuedTitled(N)

\* C28: a facade call that requests neither the output schema nor the input
\* schema never invokes the engine and leaves the caller's file as it was,
\* for each verb, also when options.sourceFile is given.
C28_NoGenerationNoTransform ==
    \A c \in 1..Len(calls) :
        (~calls[c].opts.generateSchema /\ ~calls[c].opts.generateInputSchema) =>
            /\ calls[c].transform = "none"
            /\ tr.via # c
            /\ disk[SrcApi] \in {f[SrcApi] : f \in FacadeDisks}
            /\ \A t \in pending \cup failed : t.via # c

----------------------------------------------------------------------------
(* Properties of the constructor-based form *)

FunctionNameOf(i) == findContainingFunctionName(clientFile.scopes[i].ancestors)

\* the constructor site of scope i has a zodOutput with a literal schema name
Typable(i) ==
    /\ IsHttpClientWithZodOutput(clientFile.scopes[i].ctor)
    /\ extractTypeFromHttpClientArgs(clientFile.scopes[i].ctor.props) # NoType

Requested(name) == ArrayIncludes(clientFile.functionNames.names, name)

\* C24: with a non-empty function-name filter, every binding kept in the
\* variable-correlation map belongs to a function named in the filter or to
\* an anonymous function; when the filter asks for anonymous functions, the
\* first anonymous binding is the only anonymous one kept, and the bindings
\* of named functions listed in the filter are kept as well.
C24_FilterKeepsListed ==
    (correlated.done /\ clientFile.functionNames.given
        /\ Len(clientFile.functionNames.names) > 0) =>
        /\ \A i \in correlated.kept :
              Requested(FunctionNameOf(i)) \/ FunctionNameOf(i) = "anonymous"
        /\ Requested(AnonymousRequest) =>
              /\ \A i \in correlated.kept :
                    FunctionNameOf(i) = "anonymous" =>
                        \A j \in 1..(i - 1) :
                            ~(Typable(j) /\ FunctionNameOf(j) = "anonymous")
              /\ \A i \in 1..Len(clientFile.scopes) :
                    (Typable(i) /\ Requested(FunctionNameOf(i))) => i \in correlated.kept

\* C29: a method call that received a type argument received the type of the
\* construction site of the client variable it uses, the one of its own
\* scope; so with two callbacks, or two class methods, each binding `client`
\* to a client of another schema, the call in the first receives the first
\* schema's type.
C29_TypeFromOwnConstructor ==
    correlated.done =>
        \A i \in 1..Len(clientFile.scopes) :
            correlated.calls[i].targs # <<>> =>
                correlated.calls[i].targs =
                    <<extractTypeFromHttpClientArgs(clientFile.scopes[i].ctor.props)>>

----------------------------------------------------------------------------
(* Properties of overlapping invocations *)

AllReturned == \A r \in 1..Len(runs) : runs[r].result = "returned"

\* C30: two invocations of the engine on the same file with writeNewFile
\* false, their reads and their non-awaited whole-file writes interleaved in
\* any order and nobody else writing: once the writes are done, the file
\* holds what a single transform of the original file returns.
C30_OverlapConverges ==
    (Len(runs) >= 2 /\ AllReturned /\ pending = {} /\ failed = {}) =>
        /\ runs[1].out = transformHttpClientCall((SrcApi :> runs[1].input), SrcApi, FALSE, TRUE).out
        /\ disk[SrcApi] = runs[1].out

\* the second invocation read the file before the first one's write had
\* reached the disk, and both writes have landed on a rewritten file
C30_Witness ==
    /\ Len(runs) = 2 /\ AllReturned /\ pending = {} /\ failed = {}
    /\ runs[2].input = runs[1].input
    /\ runs[1].out # runs[1].input
    /\ disk[SrcApi] = runs[1].out

====
